---- MODULE Spec2Model ----
(***************************************************************************)
(* Model of the telegram-audiomemes bot (src/main.py): the command router  *)
(* (handlers registered in main()) on top of the meme store.               *)
(*                                                                         *)
(* The store (model.SqliteMemeStorage, model.Meme), the custom filters     *)
(* (custom_filters.IsMeme), the quoted-voice decorator                     *)
(* (utils.inject_quoted_voice_id), download_file and convert_to_ogg are    *)
(* imported by main.py but their code is not part of src/; they are        *)
(* modelled from spec.md (sections 3, 4.1, 4.2, 7).                        *)
(*                                                                         *)
(* One inbound update is handled per step (spec.md section 5: one event at *)
(* a time).  Each user talks to the bot in one chat, so the conversation   *)
(* key of the ConversationHandler is the user.                             *)
(*                                                                         *)
(* Texts and names are sequences of one-character strings.                 *)
(***************************************************************************)
EXTENDS Integers, Sequences, FiniteSets

\* ------------------------------------------------------------------ bounds
MaxUsers == 2
\* voice file ids that users upload themselves: 1..MaxFiles
MaxFiles == 1
\* voice uploads by the bot (reply_voice); each returns a fresh file id
MaxUploads == 1
\* records the store creates over a run (ids 1..MaxMemes)
MaxMemes == 2
\* length of a text message / of a word of /rename
MaxLen == 2
\* records of the largest table an inline query is answered from
MaxStore == 12

\* ----------------------------------------------------------- program values
\* main.py line 21
NAME == 1
\* main.py line 186: islice(memes, 10)
InlineLimit == 10
\* ConversationHandler.END (returned at main.py lines 32 and 80)
END == -1
\* no conversation state stored for the key (None)
IDLE == 0
\* absent file id: user_data has no 'meme_file_id', or no quoted voice
NoFile == 0
\* id=None of a Meme not yet stored (main.py line 70)
NoId == 0

Users == 1..MaxUsers
UserFiles == 1..MaxFiles
BotFiles == (MaxFiles + 1)..(MaxFiles + MaxUploads)
FileIds == UserFiles \cup BotFiles

Space == " "
NonSpace == {"a"}
Chars == {Space} \cup NonSpace

SeqsUpTo(S, n) == UNION {[1..k -> S] : k \in 0..n}

\* a text message: Filters.text passes a non-empty text that is no command
Texts == SeqsUpTo(Chars, MaxLen) \ {<<>>}
Words == SeqsUpTo(NonSpace, MaxLen) \ {<<>>}

\* ------------------------------------------------------------------ strings
RECURSIVE lstrip(_)
lstrip(s) == IF s # <<>> /\ Head(s) = Space THEN lstrip(Tail(s)) ELSE s

RECURSIVE rstrip(_)
rstrip(s) ==
  IF s # <<>> /\ s[Len(s)] = Space THEN rstrip(SubSeq(s, 1, Len(s) - 1)) ELSE s

\* str.strip() (main.py line 66)
strip(s) == rstrip(lstrip(s))

\* ' '.join(args) (main.py line 124)
RECURSIVE join(_)
join(args) ==
  IF args = <<>> THEN <<>>
  ELSE IF Len(args) = 1 THEN args[1]
  ELSE args[1] \o <<Space>> \o join(Tail(args))

\* the arguments of a /rename command: the words after the command
ArgLists == {a \in SeqsUpTo(Words, 2) : Len(join(a)) <= MaxLen + 1}

\* the text of an inline query (main.py line 178); it may be empty
Queries == SeqsUpTo(Chars, MaxLen)

Min(a, b) == IF a <= b THEN a ELSE b

\* islice off by one: one element fewer than asked for
islice_OneShort(s, n) == SubSeq(s, 1, Min(n - 1, Len(s)))

\* itertools.islice(s, n) (main.py line 186): the first n elements, or all
\* of them when there are fewer
islice(s, n) == SubSeq(s, 1, Min(n, Len(s)))

\* -------------------------------------------------------------------- state
VARIABLES
  store,      \* the records of the meme table
  next_id,    \* the id the store gives to the next record
  conv,       \* conversation state per user (IDLE or NAME)
  user_data,  \* user_data['meme_file_id'] per user (NoFile: not set)
  uploads,    \* voice uploads done by the bot so far
  ev,         \* the update handled by the last step
  replies,    \* the replies sent while handling it
  err,        \* the failure raised while handling it ("None": none)
  logged,     \* whether that failure reached error_handler
  added,      \* the memes passed to add() while handling it
  issued,     \* every id a stored record has ever had
  answer      \* the results it answered an inline query with

vars == <<store, next_id, conv, user_data, uploads, ev, replies, err, logged,
          added, issued, answer>>

\* ---------------------------------------------------------------- the store
\* model.Meme
Meme(id, name, file_id, owner_id, times_used) ==
  [id |-> id, name |-> name, file_id |-> file_id, owner_id |-> owner_id,
   times_used |-> times_used]

\* SqliteMemeStorage.get_by_file_id: the records a lookup by file_id can
\* return; the empty set is NotFound (KeyError)
get_by_file_id(st, file_id) == {m \in st : m.file_id = file_id}

\* SqliteMemeStorage.add: the stored record; an unset id is assigned by the
\* store
add_record(meme, nid) ==
  Meme(IF meme.id = NoId THEN nid ELSE meme.id, meme.name, meme.file_id,
       meme.owner_id, meme.times_used)

\* SqliteMemeStorage.rename: the table after an authorized rename
rename_records(st, id, new_name) ==
  {IF m.id = id THEN Meme(m.id, new_name, m.file_id, m.owner_id, m.times_used)
   ELSE m : m \in st}

\* the ownership gate of delete_by_file_id and rename
authorized(meme, requester_id) == meme.owner_id = requester_id

\* what an authorized delete_by_file_id that looked up `meme` can remove: the
\* record, or every record of that file_id
delete_choices(st, meme) == {{meme}, get_by_file_id(st, meme.file_id)}

\* the records of a set in the order of the table's rows (by id)
RECURSIVE rows(_)
rows(S) ==
  IF S = {} THEN <<>>
  ELSE LET first == CHOOSE m \in S : \A o \in S : m.id <= o.id
       IN <<first>> \o rows(S \ {first})

\* the query occurs in the name
contains(name, query) ==
  \E i \in 0..(Len(name) - Len(query)) :
    SubSeq(name, i + 1, i + Len(query)) = query

\* SqliteMemeStorage.find: the records whose name matches the query
find(st, query) == rows({m \in st : contains(m.name, query)})

\* SqliteMemeStorage.get_all
get_all(st) == rows(st)

\* custom_filters.IsMeme: a voice message whose file_id is stored
is_meme(st, file_id) == get_by_file_id(st, file_id) # {}

\* ------------------------------------------------------------------ replies
\* a reply: its text and, for a formatted text, the value filled in; a voice
\* reply carries the file id the platform gave it
Reply(text, arg) == <<text, arg>>

\* main.py line 113
DeleteUnauthorizedText ==
  "Sorry, you can only delete the memes you added yourself."

\* main.py line 116
DeletedText == "The meme \"{name}\" has been deleted."

\* main.py line 140
RenameUnauthorizedText ==
  "Sorry, you can only rename the memes you added yourself."

\* main.py line 161
FixUnauthorizedText == "Sorry, you can only fix the memes you added yourself."

\* main.py lines 92 and 107
NotFoundText == "I don't know that meme, sorry."

\* main.py lines 134 and 155
NotFoundText2 == "Sorry, I don't know that meme."

\* main.py line 38
KnownMemeText == "Name: \"{}\""

\* main.py line 127
UsageText == "Usage: /rename <i>new name</i>"

\* ------------------------------------------------------------------- events
Event(type, user, file, text) ==
  [type |-> type, user |-> user, file |-> file, text |-> text]

Init ==
  /\ store = {}
  /\ next_id = 1
  /\ conv = [u \in Users |-> IDLE]
  /\ user_data = [u \in Users |-> NoFile]
  /\ uploads = 0
  /\ ev = Event("start", 0, NoFile, <<>>)
  /\ replies = <<>>
  /\ err = "None"
  /\ logged = FALSE
  /\ added = <<>>
  /\ issued = {}
  /\ answer = <<>>


\* the file ids a user can send or quote: the ones users upload and the ones
\* the bot's voice replies have been given so far
KnownFiles == UserFiles \cup ((MaxFiles + 1)..(MaxFiles + uploads))

\* the file id the platform gives to the bot's next voice upload (fresh)
reply_voice_file_id == MaxFiles + uploads + 1

\* outcomes of download_file, convert_to_ogg and reply_voice, in that order
Outcomes == {"ok", "NetworkError", "ConversionError", "TelegramError"}

\* one update handled: the router's state after it and what it sent
Handled(e, st, nid, cv, ud, up, reps, er, lg, ad) ==
  /\ ev' = e
  /\ store' = st
  /\ next_id' = nid
  /\ conv' = cv
  /\ user_data' = ud
  /\ uploads' = up
  /\ replies' = reps
  /\ err' = er
  /\ logged' = lg
  /\ added' = ad
  /\ issued' = issued \cup {m.id : m \in st}
  /\ answer' = <<>>

\* a request that changes nothing: a handler that only replies (reps), a
\* caught failure (er), or an update no handler takes
Answered(e, reps, er) ==
  Handled(e, store, next_id, conv, user_data, uploads, reps, er, FALSE, <<>>)

\* a callback's return value applied to every user's conversation
conv_update_AllChats(cv, u, ret) ==
  [o \in DOMAIN cv |-> IF ret = END THEN IDLE ELSE ret]

\* the new conversation state for the value a conversation callback returns
conv_update(cv, u, ret) == [cv EXCEPT ![u] = IF ret = END THEN IDLE ELSE ret]

\* ----------------------------------------------------------------- handlers
\* cmd_cancel returning NAME instead of ConversationHandler.END
cmd_cancel_return_Name == NAME

\* main.py lines 29-32
cmd_cancel_return == END

cmd_cancel(e, u) ==
  Handled(e, store, next_id, conv_update(conv, u, cmd_cancel_return),
          user_data, uploads,
          <<Reply("Current operation has been canceled.", <<>>)>>,
          "None", FALSE, <<>>)

\* main.py lines 35-38
meme_handler(e, u, file_id) ==
  \E meme \in get_by_file_id(store, file_id) :
    Answered(e, <<Reply(KnownMemeText, meme.name)>>, "None")

\* the entry point without the ~is_meme of line 206
entry_filter_AnyVoice(st, file_id) == TRUE

\* main.py line 206: ~is_meme & (audio | voice | audio document)
entry_filter(st, file_id) == ~is_meme(st, file_id)

\* main.py lines 57-60
audio_handler_return == NAME

\* main.py lines 41-60, a voice message (line 45)
audio_handler_voice(e, u, file_id) ==
  Handled(e, store, next_id, conv_update(conv, u, audio_handler_return),
          [user_data EXCEPT ![u] = file_id], uploads,
          <<Reply("Okay, now send me the name for the meme.", <<>>)>>,
          "None", FALSE, <<>>)

\* main.py lines 41-60, an audio file or audio document (lines 48-55): a
\* failure of the download, the conversion or the upload leaves the handler
\* at that line and reaches error_handler (lines 195-196)
audio_handler_audio(e, u, outcome) ==
  IF outcome = "ok"
  THEN /\ uploads < MaxUploads
       /\ Handled(e, store, next_id,
                  conv_update(conv, u, audio_handler_return),
                  [user_data EXCEPT ![u] = reply_voice_file_id], uploads + 1,
                  <<Reply("Converting to voice...", <<>>),
                    Reply("voice", <<reply_voice_file_id>>),
                    Reply("Okay, now send me the name for the meme.", <<>>)>>,
                  "None", FALSE, <<>>)
  ELSE Handled(e, store, next_id, conv, user_data, uploads,
               <<Reply("Converting to voice...", <<>>)>>,
               outcome, TRUE, <<>>)

\* name_handler without the strip() of line 66
name_handler_meme_NoStrip(text, file_id, from_user) ==
  Meme(NoId, text, file_id, from_user, 0)

\* name_handler passing an id of its own (the sender's) instead of None
name_handler_meme_OwnId(text, file_id, from_user) ==
  Meme(from_user, strip(text), file_id, from_user, 0)

\* main.py lines 66-75
name_handler_meme(text, file_id, from_user) ==
  Meme(NoId, strip(text), file_id, from_user, 0)

\* main.py line 80
name_handler_return == END

\* main.py lines 63-80
name_handler(e, u, text) ==
  LET meme == name_handler_meme(text, user_data[u], u) IN
  /\ next_id <= MaxMemes
  /\ Handled(e, store \cup {add_record(meme, next_id)}, next_id + 1,
             conv_update(conv, u, name_handler_return), user_data, uploads,
             <<Reply("Meme has been added.", <<>>)>>, "None", FALSE, <<meme>>)

\* utils.inject_quoted_voice_id when the message quotes no voice message
no_quoted_voice(e) ==
  Answered(e, <<Reply("no quoted voice", <<>>)>>, "None")

\* cmd_name without its except KeyError: the miss reaches error_handler
cmd_name_NoCatch(e, u, quoted_voice_id) ==
  IF get_by_file_id(store, quoted_voice_id) = {}
  THEN Handled(e, store, next_id, conv, user_data, uploads, <<>>, "NotFound",
               TRUE, <<>>)
  ELSE \E meme \in get_by_file_id(store, quoted_voice_id) :
         Answered(e, <<Reply("{}", meme.name)>>, "None")

\* main.py lines 83-95
cmd_name(e, u, quoted_voice_id) ==
  IF get_by_file_id(store, quoted_voice_id) = {}
  THEN Answered(e, <<Reply(NotFoundText, <<>>)>>,
                "NotFound")
  ELSE \E meme \in get_by_file_id(store, quoted_voice_id) :
         Answered(e, <<Reply("{}", meme.name)>>, "None")

\* main.py lines 98-116
cmd_delete(e, u, quoted_voice_id) ==
  IF get_by_file_id(store, quoted_voice_id) = {}
  THEN Answered(e, <<Reply(NotFoundText, <<>>)>>,
                "NotFound")
  ELSE \E meme \in get_by_file_id(store, quoted_voice_id) :
       \E found \in get_by_file_id(store, quoted_voice_id) :
         IF ~authorized(found, u)
         THEN Answered(e,
                <<Reply(DeleteUnauthorizedText, <<>>)>>,
                "Unauthorized")
         ELSE \E gone \in delete_choices(store, found) :
                Handled(e, store \ gone, next_id, conv, user_data, uploads,
                        <<Reply(DeletedText, meme.name)>>,
                        "None", FALSE, <<>>)

\* cmd_rename looking the meme up before it checks the new name
cmd_rename_LookupFirst(e, u, args, quoted_voice_id) ==
  LET new_name == join(args) IN
  IF get_by_file_id(store, quoted_voice_id) = {}
  THEN Answered(e, <<Reply(NotFoundText2, <<>>)>>, "NotFound")
  ELSE IF new_name = <<>>
  THEN Answered(e, <<Reply(UsageText, <<>>)>>, "ValidationError")
  ELSE \E meme \in get_by_file_id(store, quoted_voice_id) :
         IF ~authorized(meme, u)
         THEN Answered(e, <<Reply(RenameUnauthorizedText, <<>>)>>,
                       "Unauthorized")
         ELSE Handled(e, rename_records(store, meme.id, new_name), next_id,
                      conv, user_data, uploads,
                      <<Reply("The meme has been renamed to \"{}\"", new_name)>>,
                      "None", FALSE, <<>>)

\* main.py lines 119-143
cmd_rename(e, u, args, quoted_voice_id) ==
  LET new_name == join(args) IN
  IF new_name = <<>>
  THEN Answered(e, <<Reply(UsageText, <<>>)>>,
                "ValidationError")
  ELSE IF get_by_file_id(store, quoted_voice_id) = {}
  THEN Answered(e, <<Reply(NotFoundText2, <<>>)>>,
                "NotFound")
  ELSE \E meme \in get_by_file_id(store, quoted_voice_id) :
         IF ~authorized(meme, u)
         THEN Answered(e,
                <<Reply(RenameUnauthorizedText, <<>>)>>,
                "Unauthorized")
         ELSE Handled(e, rename_records(store, meme.id, new_name), next_id,
                      conv, user_data, uploads,
                      <<Reply("The meme has been renamed to \"{}\"", new_name)>>,
                      "None", FALSE, <<>>)

\* /fix storing the replacement as already used once
cmd_fix_meme_Used(meme, fixed_file_id) ==
  Meme(NoId, meme.name, fixed_file_id, meme.owner_id, 1)

\* main.py lines 168-172
cmd_fix_meme(meme, fixed_file_id) ==
  Meme(NoId, meme.name, fixed_file_id, meme.owner_id, 0)

\* main.py lines 146-174: the old record is deleted (line 159) before the
\* download, the conversion and the upload (lines 164-166); a failure there
\* leaves the handler and reaches error_handler (lines 195-196)
cmd_fix(e, u, quoted_voice_id, outcome) ==
  IF get_by_file_id(store, quoted_voice_id) = {}
  THEN Answered(e, <<Reply(NotFoundText2, <<>>)>>,
                "NotFound")
  ELSE \E meme \in get_by_file_id(store, quoted_voice_id) :
       \E found \in get_by_file_id(store, meme.file_id) :
         IF ~authorized(found, u)
         THEN Answered(e,
                <<Reply(FixUnauthorizedText, <<>>)>>,
                "Unauthorized")
         ELSE \E gone \in delete_choices(store, found) :
           IF outcome = "ok"
           THEN LET fixed == cmd_fix_meme(meme, reply_voice_file_id) IN
                /\ uploads < MaxUploads
                /\ next_id <= MaxMemes
                /\ Handled(e, (store \ gone) \cup {add_record(fixed, next_id)},
                           next_id + 1, conv, user_data, uploads + 1,
                           <<Reply("voice", <<reply_voice_file_id>>),
                             Reply("The meme has been fixed", <<>>)>>,
                           "None", FALSE, <<fixed>>)
           ELSE Handled(e, store \ gone, next_id, conv, user_data, uploads,
                        <<>>, outcome, TRUE, <<>>)

\* main.py line 188: InlineQueryResultCachedVoice(uuid4(), meme.file_id,
\* title=meme.name); the random result id is left out
inline_result(meme) == [file_id |-> meme.file_id, title |-> meme.name]

\* main.py lines 181-186: the memes an inline query is answered with
inlinequery_memes(st, query) ==
  islice(IF query # <<>> THEN find(st, query) ELSE get_all(st), InlineLimit)

\* main.py lines 177-192
inlinequery(e, query) ==
  LET memes == inlinequery_memes(store, query) IN
  /\ ev' = e
  /\ answer' = [i \in 1..Len(memes) |-> inline_result(memes[i])]
  /\ replies' = <<>>
  /\ err' = "None"
  /\ logged' = FALSE
  /\ added' = <<>>
  /\ UNCHANGED <<store, next_id, conv, user_data, uploads, issued>>

\* --------------------------------------------------------------- dispatcher
\* main.py lines 204-227: the handlers in registration order; the first one
\* whose filter takes the update handles it.  In state NAME the conversation
\* handler takes only a text (line 213) or /cancel (line 219); without a
\* state it takes only its entry point (lines 205-209).
VoiceMessage(u, file_id) ==
  LET e == Event("voice", u, file_id, <<>>) IN
  IF conv[u] = IDLE /\ entry_filter(store, file_id)
  THEN audio_handler_voice(e, u, file_id)
  ELSE IF is_meme(store, file_id) THEN meme_handler(e, u, file_id)
  ELSE Answered(e, <<>>, "None")

AudioMessage(u, outcome) ==
  LET e == Event("audio", u, NoFile, <<>>) IN
  IF conv[u] = IDLE THEN audio_handler_audio(e, u, outcome)
  ELSE outcome = "ok" /\ Answered(e, <<>>, "None")

TextMessage(u, text) ==
  LET e == Event("text", u, NoFile, text) IN
  IF conv[u] = NAME THEN name_handler(e, u, text)
  ELSE Answered(e, <<>>, "None")

CancelCommand(u) ==
  LET e == Event("/cancel", u, NoFile, <<>>) IN
  IF conv[u] = NAME THEN cmd_cancel(e, u) ELSE Answered(e, <<>>, "None")

NameCommand(u, quoted) ==
  LET e == Event("/name", u, quoted, <<>>) IN
  IF quoted = NoFile THEN no_quoted_voice(e) ELSE cmd_name(e, u, quoted)

DeleteCommand(u, quoted) ==
  LET e == Event("/delete", u, quoted, <<>>) IN
  IF quoted = NoFile THEN no_quoted_voice(e) ELSE cmd_delete(e, u, quoted)

RenameCommand(u, args, quoted) ==
  LET e == Event("/rename", u, quoted, join(args)) IN
  IF quoted = NoFile THEN no_quoted_voice(e)
  ELSE cmd_rename(e, u, args, quoted)

FixCommand(u, quoted, outcome) ==
  LET e == Event("/fix", u, quoted, <<>>) IN
  IF quoted = NoFile THEN outcome = "ok" /\ no_quoted_voice(e)
  ELSE cmd_fix(e, u, quoted, outcome)

\* main.py line 228
InlineQuery(u, query) == inlinequery(Event("inline", u, NoFile, query), query)

Quoted == KnownFiles \cup {NoFile}

Next ==
  \/ \E u \in Users, f \in KnownFiles : VoiceMessage(u, f)
  \/ \E u \in Users, o \in Outcomes : AudioMessage(u, o)
  \/ \E u \in Users, t \in Texts : TextMessage(u, t)
  \/ \E u \in Users : CancelCommand(u)
  \/ \E u \in Users, q \in Quoted : NameCommand(u, q)
  \/ \E u \in Users, q \in Quoted : DeleteCommand(u, q)
  \/ \E u \in Users, a \in ArgLists, q \in Quoted : RenameCommand(u, a, q)
  \/ \E u \in Users, q \in Quoted, o \in Outcomes : FixCommand(u, q, o)
  \/ \E u \in Users, q \in Queries : InlineQuery(u, q)

Spec == Init /\ [][Next]_vars

\* ------------------------------------------------- inline queries, any table
\* the table after n add-meme conversations: user 1 + (i % MaxUsers) has sent
\* voice i and named it "a" (odd i) or "aa" (even i)
table_after(n) ==
  {add_record(
     name_handler_meme(IF i % 2 = 1 THEN <<"a">> ELSE <<"a", "a">>, i,
                       1 + (i % MaxUsers)), i) : i \in 1..n}

\* the bot with a table of up to MaxStore records and no conversation open
InlineInit ==
  \E n \in 0..MaxStore :
    /\ store = table_after(n)
    /\ next_id = n + 1
    /\ issued = 1..n
    /\ conv = [u \in Users |-> IDLE]
    /\ user_data = [u \in Users |-> NoFile]
    /\ uploads = 0
    /\ ev = Event("start", 0, NoFile, <<>>)
    /\ replies = <<>>
    /\ err = "None"
    /\ logged = FALSE
    /\ added = <<>>
    /\ answer = <<>>

InlineNext == \E u \in Users, q \in Queries : InlineQuery(u, q)

\* inline queries against tables larger than the ones Spec builds
SpecInline == InlineInit /\ [][InlineNext]_vars

\* ===================================================================== C1
\* C1: no two stored records have the same file_id, after any sequence of
\* updates from any number of users.
C1_UniqueFileId ==
  \A m1 \in store : \A m2 \in store : m1.file_id = m2.file_id => m1 = m2

\* ===================================================================== C2
\* C2: a /delete of a stored meme's file_id by a requester who is not its
\* owner fails with Unauthorized, is answered with the "you can only delete
\* the memes you added yourself" reply, and leaves the record in the store
\* unchanged.
C2_NonOwnerDeleteRefused ==
  [][\A m \in store :
       (ev'.type = "/delete" /\ ev'.file = m.file_id /\ ev'.user # m.owner_id)
       => /\ err' = "Unauthorized"
          /\ replies' = <<Reply(DeleteUnauthorizedText, <<>>)>>
          /\ m \in store']_vars

\* ===================================================================== C3
\* C3: after a /fix by the owner of a stored meme, the old file_id is
\* NotFound and a record with another file_id has the old record's name and
\* owner_id.
C3_FixReplaces ==
  [][\A m \in store :
       (ev'.type = "/fix" /\ ev'.file = m.file_id /\ ev'.user = m.owner_id)
       => /\ get_by_file_id(store', m.file_id) = {}
          /\ \E n \in store' : /\ n.file_id # m.file_id
                               /\ n.name = m.name
                               /\ n.owner_id = m.owner_id]_vars

\* ===================================================================== C4
\* a step that handles a /cancel of user u whose conversation is in NAME
CancelInName(u) == ev'.type = "/cancel" /\ ev'.user = u /\ conv[u] = NAME

\* C4 as stated: a /cancel in AWAITING_NAME returns the conversation to IDLE,
\* leaves no pending file_id in the user's context and adds no record.
C4_CancelClearsPending ==
  [][\A u \in Users :
       CancelInName(u)
       => /\ conv'[u] = IDLE
          /\ user_data'[u] = NoFile
          /\ store' = store]_vars

\* C4 amended: a /cancel in AWAITING_NAME returns the conversation to IDLE
\* and adds no record; the pending file_id stays in the user's context
\* (user_data is not changed), but it is no longer pending: a text message of
\* a user whose conversation is IDLE adds no record and changes no record.
C4_CancelEndsConversation ==
  [][\A u \in Users :
       /\ CancelInName(u)
          => /\ conv'[u] = IDLE
             /\ user_data' = user_data
             /\ user_data'[u] # NoFile
             /\ store' = store
       /\ (ev'.type = "text" /\ ev'.user = u /\ conv[u] = IDLE)
          => /\ store' = store
             /\ conv'[u] = IDLE]_vars

\* a /cancel was handled in NAME: the conversation is over and the file id
\* is still in user_data
C4_Witness ==
  /\ ev.type = "/cancel"
  /\ replies # <<>>
  /\ conv[ev.user] = IDLE
  /\ user_data[ev.user] # NoFile

\* ===================================================================== C5
\* name is text without its leading and trailing whitespace: text is name
\* between two runs of spaces, and name neither starts nor ends with a space
IsTrimmed(text, name) ==
  /\ name # <<>> => (name[1] # Space /\ name[Len(name)] # Space)
  /\ \E i \in 0..Len(text) :
       /\ i + Len(name) <= Len(text)
       /\ \A k \in 1..Len(text) :
            IF k <= i \/ k > i + Len(name) THEN text[k] = Space
            ELSE text[k] = name[k - i]

\* C5: a voice message with a file_id that is not stored, from a user in
\* IDLE, moves the conversation to AWAITING_NAME with that file_id pending;
\* the pending file_id stays while the conversation is in AWAITING_NAME; and
\* the next text message of that user, received in AWAITING_NAME, adds
\* exactly one record (the trimmed text as name, the pending file_id, the
\* sender as owner) and returns the conversation to IDLE.
C5_AddConversation ==
  [][\A u \in Users :
       /\ (/\ ev'.type = "voice" /\ ev'.user = u /\ conv[u] = IDLE
           /\ \A m \in store : m.file_id # ev'.file)
          => /\ conv'[u] = NAME
             /\ user_data'[u] = ev'.file
             /\ store' = store
       /\ (conv[u] = NAME /\ conv'[u] = NAME) => user_data'[u] = user_data[u]
       /\ (ev'.type = "text" /\ ev'.user = u /\ conv[u] = NAME)
          => /\ conv'[u] = IDLE
             /\ store \subseteq store'
             /\ Cardinality(store' \ store) = 1
             /\ \A r \in store' \ store :
                  /\ IsTrimmed(ev'.text, r.name)
                  /\ r.file_id = user_data[u]
                  /\ r.owner_id = u]_vars

\* the name step has stored a record for a text with surrounding whitespace
C5_Witness ==
  /\ ev.type = "text"
  /\ conv[ev.user] = IDLE
  /\ ev.text = <<Space, "a">>
  /\ \E r \in store :
       r.name = <<"a">> /\ r.owner_id = ev.user /\ r.file_id = user_data[ev.user]

\* ===================================================================== C6
\* the failure categories of spec.md section 7
Categories ==
  {"NotFound", "Unauthorized", "ConversionError", "NetworkError",
   "ValidationError"}

\* the replies main.py has for a failure of each category
FailureTexts(category) ==
  CASE category = "NotFound" -> {NotFoundText, NotFoundText2}
    [] category = "Unauthorized" ->
         {DeleteUnauthorizedText, RenameUnauthorizedText, FixUnauthorizedText}
    [] category = "ValidationError" -> {UsageText}
    [] OTHER -> {}

\* C6: every failure of these categories raised while handling a request is
\* caught by the handler (it does not reach error_handler) and the request's
\* last reply is the message for that failure.
C6_FailuresAnswered ==
  err \in Categories
  => /\ ~logged
     /\ replies # <<>>
     /\ replies[Len(replies)][1] \in FailureTexts(err)

\* ===================================================================== C7
\* C7: a /rename with a non-empty new name by the owner of a stored meme
\* sets the record's name and leaves id, file_id and owner_id; by anyone
\* else it fails with Unauthorized and leaves the record unchanged.
C7_RenameFrame ==
  [][\A m \in store :
       (ev'.type = "/rename" /\ ev'.file = m.file_id /\ ev'.text # <<>>)
       => IF ev'.user = m.owner_id
          THEN /\ err' = "None"
               /\ Meme(m.id, ev'.text, m.file_id, m.owner_id, m.times_used)
                    \in store'
               /\ \A r \in store' : r.id = m.id => r.name = ev'.text
          ELSE /\ err' = "Unauthorized"
               /\ m \in store']_vars

\* ===================================================================== C8
\* C8: right after add(meme), in the name step or in /fix, every record
\* get_by_file_id(meme.file_id) can return has the name, file_id and
\* owner_id passed to add.
C8_GetAfterAdd ==
  [][\A i \in 1..Len(added') :
       /\ get_by_file_id(store', added'[i].file_id) # {}
       /\ \A r \in get_by_file_id(store', added'[i].file_id) :
            /\ r.name = added'[i].name
            /\ r.file_id = added'[i].file_id
            /\ r.owner_id = added'[i].owner_id]_vars

C10_OwnerDelete ==
  [][/\ \A m \in store :
          (ev'.type = "/delete" /\ ev'.file = m.file_id
           /\ ev'.user = m.owner_id)
          => /\ err' = "None"
             /\ Len(replies') = 1
             /\ replies'[1][1] = DeletedText
             /\ get_by_file_id(store', m.file_id) = {}
     /\ \A f \in FileIds :
          (get_by_file_id(store, f) = {} /\ get_by_file_id(store', f) # {})
          => \E i \in 1..Len(added') : added'[i].file_id = f]_vars

\* ==================================================================== C11
\* C11: a voice message whose file_id is stored is never an add-meme entry
\* point: it leaves every conversation state and every pending file_id as
\* they were, leaves the store unchanged, and is answered with one reply,
\* the name of a stored record of that file_id.
C11_KnownVoiceOnlyNamed ==
  [][(ev'.type = "voice" /\ get_by_file_id(store, ev'.file) # {})
     => /\ conv' = conv
        /\ user_data' = user_data
        /\ store' = store
        /\ added' = <<>>
        /\ Len(replies') = 1
        /\ replies'[1][1] = KnownMemeText
        /\ \E m \in get_by_file_id(store, ev'.file) :
             replies'[1][2] = m.name]_vars

\* a user in IDLE has sent the voice of a stored meme and got its name
C11_Witness ==
  /\ ev.type = "voice"
  /\ conv[ev.user] = IDLE
  /\ get_by_file_id(store, ev.file) # {}
  /\ Len(replies) = 1
  /\ replies[1][1] = KnownMemeText

\* ==================================================================== C12
\* C12: an inline query is answered with min(10, number of candidates)
\* results, the candidates being find(query) for a non-empty query and
\* get_all() for an empty one; it does not fail, with fewer than 10 records
\* or none; every result has the file_id and the name of a stored record;
\* and the store is unchanged.
C12_InlineAnswer ==
  [][ev'.type = "inline"
     => LET candidates == IF ev'.text = <<>> THEN get_all(store)
                          ELSE find(store, ev'.text)
        IN /\ Len(answer') = Min(InlineLimit, Len(candidates))
           /\ \A i \in 1..Len(answer') :
                \E m \in store : /\ answer'[i].file_id = m.file_id
                                 /\ answer'[i].title = m.name
           /\ err' = "None"
           /\ ~logged'
           /\ store' = store]_vars

\* a non-empty query was answered with fewer than 10 results, and not all
\* records match it
C12_Witness ==
  /\ ev.type = "inline"
  /\ ev.text # <<>>
  /\ Len(answer) > 0
  /\ Len(answer) < InlineLimit
  /\ Len(answer) < Cardinality(store)

\* ==================================================================== C13
\* C13: every stored record has times_used = 0, at all times: no operation
\* increments the counter.
C13_NeverUsed == \A m \in store : m.times_used = 0

\* /fix has stored a replacement record
C13_Witness ==
  /\ ev.type = "/fix"
  /\ added # <<>>
  /\ \E m \in store : m.file_id = added[1].file_id

\* ==================================================================== C14
\* C14: the add-meme conversation is per user: a text message from user A
\* adds a record only if A's own conversation awaits a name, the record
\* carries A's own pending file_id and A as owner, and the message leaves
\* every other user's conversation state and pending file_id unchanged.
C14_PerUserConversation ==
  [][ev'.type = "text"
     => /\ store' # store => conv[ev'.user] = NAME
        /\ \A m \in store' \ store : /\ m.file_id = user_data[ev'.user]
                                     /\ m.owner_id = ev'.user
        /\ \A o \in Users \ {ev'.user} : /\ conv'[o] = conv[o]
                                         /\ user_data'[o] = user_data[o]]_vars

\* a user's text has added a record while another user still awaits a name
\* for a different voice message
C14_Witness ==
  /\ ev.type = "text"
  /\ added # <<>>
  /\ added[1].owner_id = ev.user
  /\ \E o \in Users \ {ev.user} : /\ conv[o] = NAME
                                  /\ user_data[o] # added[1].file_id

\* ==================================================================== C15
\* C15: a /fix of a stored meme never loses the meme: when the download, the
\* conversion or the upload fails, the old record is still in the store, and
\* a record leaves the store only in a request that has added a replacement.
C15_FixNeverLoses ==
  [][ev'.type = "/fix"
     => /\ err' \in {"NetworkError", "ConversionError", "TelegramError"}
             => store \subseteq store'
        /\ \A m \in store \ store' :
             \E i \in 1..Len(added') : /\ added'[i].name = m.name
                                       /\ added'[i].owner_id = m.owner_id]_vars

\* ==================================================================== C16
\* C16: a /fix of a stored meme by a requester who is not its owner fails
\* with Unauthorized before any download, conversion or upload: it is
\* answered with the "you can only fix the memes you added yourself" reply,
\* nothing is uploaded, no record is added and the record is unchanged.
C16_NonOwnerFixRefused ==
  [][\A m \in store :
       (ev'.type = "/fix" /\ ev'.file = m.file_id /\ ev'.user # m.owner_id)
       => /\ err' = "Unauthorized"
          /\ replies' = <<Reply(FixUnauthorizedText, <<>>)>>
          /\ uploads' = uploads
          /\ added' = <<>>
          /\ ~logged'
          /\ store' = store]_vars

\* ==================================================================== C17
\* C17: a /rename with an empty new name is answered with the usage hint and
\* leaves the store unchanged, for every requester and every quoted voice,
\* stored or not, owned by the requester or not: the empty-name check comes
\* before the lookup and the ownership check.
C17_EmptyRenameUsage ==
  [][(ev'.type = "/rename" /\ ev'.file # NoFile /\ ev'.text = <<>>)
     => /\ replies' = <<Reply(UsageText, <<>>)>>
        /\ err' = "ValidationError"
        /\ ~logged'
        /\ store' = store]_vars

\* an empty /rename of a stored meme by someone who is not its owner got the
\* usage hint
C17_Witness ==
  /\ ev.type = "/rename"
  /\ ev.text = <<>>
  /\ replies = <<Reply(UsageText, <<>>)>>
  /\ \E m \in store : m.file_id = ev.file /\ m.owner_id # ev.user

\* ==================================================================== C18
\* C18: /name, /delete, /rename with a non-empty name and /fix quoting a voice
\* whose file_id is not stored are each answered with a not-found message
\* and leave the store unchanged: nothing is deleted, and /fix downloads and
\* uploads nothing.
C18_UnknownQuotedNotFound ==
  [][(/\ ev'.type \in {"/name", "/delete", "/rename", "/fix"}
      /\ ev'.file # NoFile
      /\ get_by_file_id(store, ev'.file) = {}
      /\ ev'.type = "/rename" => ev'.text # <<>>)
     => /\ err' = "NotFound"
        /\ replies' \in {<<Reply(NotFoundText, <<>>)>>,
                         <<Reply(NotFoundText2, <<>>)>>}
        /\ ~logged'
        /\ store' = store
        /\ uploads' = uploads
        /\ added' = <<>>]_vars

\* a /fix quoting an unknown voice was answered not-found while other memes
\* are stored
C18_Witness ==
  /\ ev.type = "/fix"
  /\ err = "NotFound"
  /\ replies = <<Reply(NotFoundText2, <<>>)>>
  /\ store # {}

\* ==================================================================== C19
\* C19: in every reachable state every stored record has a non-empty name.
C19_NonEmptyNames == \A m \in store : m.name # <<>>

====
